---- MODULE Spec2Model ----
(***************************************************************************)
(* PaperBoy: a feed digest generator.                                      *)
(*                                                                         *)
(* The module models three classes of the repository:                      *)
(*   main.py             class PaperBoy (construct, fetch_feeds, analyze,  *)
(*                       generate_digest_summary, deliver, run)            *)
(*   feed_fetcher.py     class FeedFetcher (fetch_all)                     *)
(*   summarizer.py       class Summarizer (construct, summarize)           *)
(* One behaviour is one process: it runs PaperBoy, or calls fetch_all, or  *)
(* calls summarize.                                                        *)
(*                                                                         *)
(* Texts are sequences of one-character strings, so that lower(), strip()  *)
(* and the substring test are computed and not assumed.  A fixed message   *)
(* of the program is a one-element sequence holding the whole message.     *)
(* Links are link ids: EmptyLink stands for the default "" of a missing    *)
(* link, 1, 2, ... for URLs (only equality of links is ever used).         *)
(* External collaborators (feedparser, the language model, jinja2, the     *)
(* file system, SMTP, the process environment) answer nondeterministically *)
(* from small sets at the moment the code calls them.                      *)
(***************************************************************************)
EXTENDS Integers, Sequences, FiniteSets, TLC

VARIABLES
    pc,               \* position of the running program
    exit_code,        \* 0 while running / normal end, 1 after sys.exit(1)
    config,           \* PaperBoy.config (the loaded YAML)
    seen_urls,        \* PaperBoy.seen_urls
    src_idx,          \* index of the next source of the for loop
    feed,             \* the last answer of feedparser.parse
    failed,           \* history: indices of the sources whose parse raised
    all_entries,      \* fetch_feeds / fetch_all: the local list all_entries
    entries,          \* run: entries, the list the stages receive
    an_idx,           \* analyze: index of the next item of target_entries
    analyzed_entries, \* analyze: the list being built / returned
    summary,          \* the summary string of generate_digest_summary / summarize
    llm_calls,        \* history: number of model.generate_content calls
    parse_calls,      \* history: number of feedparser.parse calls
    stages,           \* history: the stages of run entered so far, in order
    delivery,         \* history: what deliver attempted and achieved
    cred_error,       \* history: which missing credential was reported
    llm_log,          \* history: the answers of the model to the analyze calls
    sources,          \* FeedFetcher.sources
    clock             \* FeedFetcher: [now, tz, days] read when fetch_all starts

vars == <<pc, exit_code, config, seen_urls, src_idx, feed, failed, all_entries,
          entries, an_idx, analyzed_entries, summary, llm_calls, parse_calls,
          stages, delivery, cred_error, llm_log, sources, clock>>

----------------------------------------------------------------------------
(* Bounds of the model *)

MaxSources == 2
MaxFeedLen == 2
MaxEntries == 11

----------------------------------------------------------------------------
(* Texts *)

Lower(c) == CASE c = "A" -> "a" [] c = "B" -> "b" [] OTHER -> c

LowerStr(s) == [i \in 1..Len(s) |-> Lower(s[i])]

IsSpace(c) == c = " "

RECURSIVE LStrip(_)
LStrip(s) == IF s # <<>> /\ IsSpace(Head(s)) THEN LStrip(Tail(s)) ELSE s

RECURSIVE RStrip(_)
RStrip(s) == IF s # <<>> /\ IsSpace(s[Len(s)])
             THEN RStrip(SubSeq(s, 1, Len(s) - 1)) ELSE s

Strip(s) == RStrip(LStrip(s))

\* Python's `k in s` for strings
IsSubstr(k, s) == \E i \in 0..(Len(s) - Len(k)) : SubSeq(s, i + 1, i + Len(k)) = k

\* dict.get(key, default)
Get(e, key, default) == IF key \in DOMAIN e THEN e[key] ELSE default

\* Python truthiness of a text: the empty string is falsy
Truthy(s) == s # <<>>

EmptyLink == 0
NowIso == <<"datetime.now().isoformat()">>

----------------------------------------------------------------------------
(* The inputs of PaperBoy: what the configuration and the feeds may hold *)

\* Raw feed entries as feedparser returns them; a field may be absent.
RawPool ==
    { [title |-> <<"A", "b">>, link |-> 1, summary |-> <<"c">>],
      [title |-> <<"c">>, link |-> 1, summary |-> <<>>,
       description |-> <<"a", "B">>, published |-> <<"p">>],
      [title |-> <<"c">>, link |-> 2, summary |-> <<"c">>],
      [title |-> <<"a">>, summary |-> <<"b">>] }

RECURSIVE SeqsUpTo(_, _)
SeqsUpTo(S, n) ==
    IF n = 0 THEN {<<>>}
    ELSE LET shorter == SeqsUpTo(S, n - 1)
         IN  shorter \cup {Append(q, x) : q \in {r \in shorter : Len(r) = n - 1}, x \in S}

\* The answers of feedparser.parse(url): it raises, or returns a feed.
NoFeed == [raised |-> FALSE, bozo |-> FALSE, entries |-> <<>>]

ParseAnswers ==
    {[raised |-> TRUE, bozo |-> FALSE, entries |-> <<>>]}
    \cup {[raised |-> FALSE, bozo |-> FALSE, entries |-> f] : f \in SeqsUpTo(RawPool, MaxFeedLen)}

InterestChoices == { <<>>, << <<"a", "B">> >>, << <<"x">>, <<"A", " ", "b">> >> }

DeliveryModes == {"markdown", "email", "both"}

\* config.yaml: the sources are named 1..n; delivery_mode may be absent.
Configs ==
    { [interests |-> i, sources |-> [k \in 1..n |-> [name |-> k]], delivery_mode |-> m] :
          i \in InterestChoices, n \in 0..MaxSources, m \in DeliveryModes }
    \cup { [interests |-> <<>>, sources |-> [k \in 1..1 |-> [name |-> k]]] }

NoConfig == [interests |-> <<>>, sources |-> <<>>]

NoDelivery == [md_attempted |-> FALSE, file_written |-> FALSE,
               email_attempted |-> FALSE, email_body |-> "none", email_sent |-> FALSE]

----------------------------------------------------------------------------
(* Initial state: the process has started, nothing is constructed yet *)

Init ==
    /\ pc = "start"
    /\ exit_code = 0
    /\ config = NoConfig
    /\ seen_urls = {}
    /\ src_idx = 1
    /\ feed = NoFeed
    /\ failed = {}
    /\ all_entries = <<>>
    /\ entries = <<>>
    /\ an_idx = 1
    /\ analyzed_entries = <<>>
    /\ summary = <<>>
    /\ llm_calls = 0
    /\ parse_calls = 0
    /\ stages = <<>>
    /\ delivery = NoDelivery
    /\ cred_error = "none"
    /\ llm_log = <<>>
    /\ sources = <<>>
    /\ clock = [now |-> 0, tz |-> 0, days |-> 0]

----------------------------------------------------------------------------
(* PaperBoy.__init__ and _load_config *)

\* _load_config fails: the error is printed and the process exits with 1.
PaperBoyConfigError ==
    /\ pc = "start"
    /\ pc' = "exit"
    /\ exit_code' = 1
    /\ cred_error' = "config"
    /\ UNCHANGED <<config, seen_urls, src_idx, feed, failed, all_entries, entries,
                   an_idx, analyzed_entries, summary, llm_calls, parse_calls,
                   stages, delivery, llm_log, sources, clock>>

\* The config loads; GEMINI_API_KEY is read from the environment.
PaperBoyInit ==
    /\ pc = "start"
    /\ \E c \in Configs, api_key \in BOOLEAN :
          /\ config' = c
          /\ seen_urls' = {}
          /\ IF ~api_key
             THEN /\ pc' = "exit"
                  /\ exit_code' = 1
                  /\ cred_error' = "GEMINI_API_KEY"
             ELSE /\ pc' = "ready"
                  /\ UNCHANGED <<exit_code, cred_error>>
    /\ UNCHANGED <<src_idx, feed, failed, all_entries, entries, an_idx,
                   analyzed_entries, summary, llm_calls, parse_calls, stages,
                   delivery, llm_log, sources, clock>>

----------------------------------------------------------------------------
(* PaperBoy.fetch_feeds *)

\* interests = [k.lower() for k in config.get("interests", [])]
Interests(c) == [k \in 1..Len(Get(c, "interests", <<>>)) |-> LowerStr(c.interests[k])]

\* Faulty variant: the content is compared as written, lower() forgotten.
ContentNotLowered(title, sum) == title \o <<" ">> \o sum

\* content_to_check = (title + " " + summary).lower()
ContentToCheck(title, sum) == LowerStr(title \o <<" ">> \o sum)

\* interests and not any(interest in content_to_check for interest in interests)
FilteredOut(interests, content) ==
    /\ interests # <<>>
    /\ ~ \E k \in 1..Len(interests) : IsSubstr(interests[k], content)

\* summary = entry.get("summary", "") or entry.get("description", "")
EntrySummary(entry) ==
    IF Truthy(Get(entry, "summary", <<>>))
    THEN entry.summary
    ELSE Get(entry, "description", <<>>)

Normalized(entry, name) ==
    [title |-> Get(entry, "title", <<>>),
     link |-> Get(entry, "link", EmptyLink),
     summary |-> EntrySummary(entry),
     source |-> name,
     published |-> Get(entry, "published", NowIso)]

\* The inner loop over feed.entries: the seen set and the list after it.
RECURSIVE ProcessEntries(_, _, _, _, _)
ProcessEntries(es, seen, all, interests, name) ==
    IF es = <<>> THEN [seen |-> seen, all |-> all]
    ELSE LET entry == Head(es)
             link == Get(entry, "link", EmptyLink)
             content == ContentToCheck(Get(entry, "title", <<>>), EntrySummary(entry))
         IN  IF link \in seen
             THEN ProcessEntries(Tail(es), seen, all, interests, name)
             ELSE IF FilteredOut(interests, content)
             THEN ProcessEntries(Tail(es), seen, all, interests, name)
             ELSE ProcessEntries(Tail(es), seen \cup {link},
                                 Append(all, Normalized(entry, name)), interests, name)

Sources(c) == Get(c, "sources", <<>>)

\* run() calls fetch_feeds(): all_entries = [].
Run ==
    /\ pc = "ready"
    /\ pc' = "fetch_feeds"
    /\ all_entries' = <<>>
    /\ src_idx' = 1
    /\ stages' = Append(stages, "Fetch")
    /\ UNCHANGED <<exit_code, config, seen_urls, feed, failed, entries, an_idx,
                   analyzed_entries, summary, llm_calls, parse_calls, delivery,
                   cred_error, llm_log, sources, clock>>

\* Faulty variant: no except clause, the exception leaves fetch_feeds.
AbortOnSourceError == "aborted"

\* The position after one source whose processing raised: the except clause
\* logs the error and the for loop goes on with the next source.
AfterSourceError == "fetch_feeds"

\* One iteration of `for source in sources`: parse, then the inner loop.
FetchFeedsSource ==
    /\ pc = "fetch_feeds"
    /\ src_idx <= Len(Sources(config))
    /\ \E answer \in ParseAnswers :
          /\ feed' = answer
          /\ parse_calls' = parse_calls + 1
          /\ IF answer.raised
             THEN /\ failed' = failed \cup {src_idx}
                  /\ pc' = AfterSourceError
                  /\ UNCHANGED <<seen_urls, all_entries>>
             ELSE LET r == ProcessEntries(answer.entries, seen_urls, all_entries,
                                          Interests(config), Sources(config)[src_idx].name)
                  IN  /\ seen_urls' = r.seen
                      /\ all_entries' = r.all
                      /\ pc' = "fetch_feeds"
                      /\ UNCHANGED failed
    /\ src_idx' = src_idx + 1
    /\ UNCHANGED <<exit_code, config, entries, an_idx, analyzed_entries, summary,
                   llm_calls, stages, delivery, cred_error, llm_log, sources, clock>>

\* Faulty variant: run does not test the fetched list.
AlwaysAnalyze(es) == "analyze"

\* run: `if not entries: return`, else analyze is called.
AfterFetch(es) == IF es = <<>> THEN "done" ELSE "analyze"

\* fetch_feeds returns its list (the locals all_entries and feed end with the
\* call, the list lives on as entries of run), and run tests it.
FetchFeedsReturn ==
    /\ pc = "fetch_feeds"
    /\ src_idx > Len(Sources(config))
    /\ entries' = all_entries
    /\ all_entries' = <<>>
    /\ feed' = NoFeed
    /\ pc' = AfterFetch(all_entries)
    /\ IF AfterFetch(all_entries) = "done"
       THEN UNCHANGED <<stages, an_idx, analyzed_entries>>
       ELSE /\ an_idx' = 1
            /\ analyzed_entries' = <<>>
            /\ stages' = Append(stages, "Analyze")
    /\ UNCHANGED <<exit_code, config, seen_urls, src_idx, failed,
                   summary, llm_calls, parse_calls, delivery, cred_error, llm_log, sources, clock>>

----------------------------------------------------------------------------
(* The language model: generate_content(prompt) raises, or returns a text *)

Responses == { <<" ", "o", " ", "k", " ">> }

LLMAnswers ==
    {[raised |-> TRUE, text |-> <<>>]} \cup {[raised |-> FALSE, text |-> t] : t \in Responses}

AnalysisFailed == <<"Analysis failed.">>
NoEntriesToSummarize == <<"No entries to summarize.">>
CouldNotGenerateSummary == <<"Could not generate summary.">>

----------------------------------------------------------------------------
(* PaperBoy.analyze *)

AnalyzeLimit == 10

Min(a, b) == IF a < b THEN a ELSE b

\* Faulty variant: no slice, every entry is analyzed.
AllEntries(es) == es

\* target_entries = entries[:10]
TargetEntries(es) == SubSeq(es, 1, Min(Len(es), AnalyzeLimit))

\* Faulty variant: the text is attached as returned, strip() forgotten.
AnalysisUntrimmed(answer) == IF answer.raised THEN <<"Analysis failed.">> ELSE answer.text

\* The analysis an item gets from one answer of the model.
Analysis(answer) == IF answer.raised THEN AnalysisFailed ELSE Strip(answer.text)

\* item["analysis"] = analysis
WithAnalysis(item, analysis) == ("analysis" :> analysis) @@ item

\* One iteration of `for item in target_entries`.  item is the dict object the
\* list entries holds too, so the assignment shows in entries as well.
AnalyzeItem ==
    /\ pc = "analyze"
    /\ an_idx <= Len(TargetEntries(entries))
    /\ \E answer \in LLMAnswers :
          LET item == WithAnalysis(TargetEntries(entries)[an_idx], Analysis(answer))
          IN  /\ entries' = [entries EXCEPT ![an_idx] = item]
              /\ analyzed_entries' = Append(analyzed_entries, item)
              /\ llm_log' = Append(llm_log, answer)
    /\ llm_calls' = llm_calls + 1
    /\ an_idx' = an_idx + 1
    /\ UNCHANGED <<pc, exit_code, config, seen_urls, src_idx, feed, failed, all_entries,
                   summary, parse_calls, stages, delivery, cred_error, sources, clock>>

\* analyze returns analyzed_entries; run goes on to generate_digest_summary.
AnalyzeReturn ==
    /\ pc = "analyze"
    /\ an_idx > Len(TargetEntries(entries))
    /\ pc' = "summary"
    /\ stages' = Append(stages, "Summarize")
    /\ UNCHANGED <<exit_code, config, seen_urls, src_idx, feed, failed, all_entries,
                   entries, an_idx, analyzed_entries, summary, llm_calls, parse_calls,
                   delivery, cred_error, llm_log, sources, clock>>

----------------------------------------------------------------------------
(* PaperBoy.generate_digest_summary *)

\* Faulty variant: the test for an empty list is missing.
DigestSummaryAlwaysCalls(es, answer) ==
    [text |-> IF answer.raised THEN <<"Could not generate summary.">> ELSE Strip(answer.text),
     calls |-> 1]

\* The returned string and the number of model calls made for it.
DigestSummary(es, answer) ==
    IF es = <<>>
    THEN [text |-> NoEntriesToSummarize, calls |-> 0]
    ELSE [text |-> IF answer.raised THEN CouldNotGenerateSummary ELSE Strip(answer.text),
          calls |-> 1]

\* run: summary = self.generate_digest_summary(analyzed_entries)
GenerateDigestSummary ==
    /\ pc = "summary"
    /\ \E answer \in LLMAnswers :
          LET r == DigestSummary(analyzed_entries, answer)
          IN  /\ summary' = r.text
              /\ llm_calls' = llm_calls + r.calls
    /\ pc' = "deliver"
    /\ stages' = Append(stages, "Deliver")
    /\ UNCHANGED <<exit_code, config, seen_urls, src_idx, feed, failed, all_entries,
                   entries, an_idx, analyzed_entries, parse_calls, delivery,
                   cred_error, llm_log, sources, clock>>

\* The arguments of a direct call of generate_digest_summary.
SummaryInputs ==
    { <<>>,
      << [title |-> <<"c">>, link |-> 1, summary |-> <<>>, source |-> 1,
          published |-> NowIso, analysis |-> AnalysisFailed] >> }

\* A caller holding the constructed object calls generate_digest_summary itself.
GenerateDigestSummaryCall ==
    /\ pc = "ready"
    /\ \E es \in SummaryInputs, answer \in LLMAnswers :
          LET r == DigestSummary(es, answer)
          IN  /\ analyzed_entries' = es
              /\ summary' = r.text
              /\ llm_calls' = llm_calls + r.calls
    /\ pc' = "summary_returned"
    /\ UNCHANGED <<exit_code, config, seen_urls, src_idx, feed, failed, all_entries,
                   entries, an_idx, parse_calls, stages, delivery, cred_error,
                   llm_log, sources, clock>>

----------------------------------------------------------------------------
(* PaperBoy.deliver *)

\* What deliver finds outside the program: whether templates/digest.md and
\* templates/digest.html load and render, whether digests/ can be made and
\* written, the EMAIL_* variables of the environment, and the SMTP session.
DeliverEnvs ==
    [md_template : BOOLEAN, html_template : BOOLEAN, fs_ok : BOOLEAN,
     email_user : BOOLEAN, email_to : BOOLEAN, email_password : BOOLEAN,
     smtp_ok : BOOLEAN]

\* mode = self.config.get("delivery_mode", "markdown")
Mode(c) == Get(c, "delivery_mode", "markdown")

\* if mode == "markdown": the template is rendered and the file written,
\* any exception is caught and logged.
DeliverMarkdown(env) ==
    [NoDelivery EXCEPT !.md_attempted = TRUE,
                       !.file_written = env.md_template /\ env.fs_ok]

\* The body of the email: digest.html, or digest.md as plain text when the
\* HTML template fails; "none" when that fails too (the outer except).
EmailBody(env) ==
    IF env.html_template THEN "html"
    ELSE IF env.md_template THEN "plain"
    ELSE "none"

\* The missing credential deliver reports and returns on, if any.
EmailCredError(env) ==
    IF ~env.email_user \/ ~env.email_to THEN "EMAIL_USER/EMAIL_TO"
    ELSE IF ~env.email_password THEN "EMAIL_PASSWORD"
    ELSE "none"

\* elif mode == "email"
DeliverEmail(env) ==
    [NoDelivery EXCEPT !.email_attempted = TRUE,
                       !.email_body = EmailBody(env),
                       !.email_sent = /\ EmailBody(env) # "none"
                                      /\ EmailCredError(env) = "none"
                                      /\ env.smtp_ok]

\* The if / elif chain of deliver: what is attempted for a mode.
Delivered(mode, env) ==
    IF mode = "markdown" THEN DeliverMarkdown(env)
    ELSE IF mode = "email" THEN DeliverEmail(env)
    ELSE NoDelivery

\* The credential error printed by deliver, reached only on the email branch
\* after a body was rendered.
DeliverCredError(mode, env) ==
    IF mode = "email" /\ EmailBody(env) # "none" THEN EmailCredError(env) ELSE "none"

\* run: self.deliver(analyzed_entries, summary); run returns.
Deliver ==
    /\ pc = "deliver"
    /\ \E env \in DeliverEnvs :
          /\ delivery' = Delivered(Mode(config), env)
          /\ cred_error' = DeliverCredError(Mode(config), env)
    /\ pc' = "done"
    /\ UNCHANGED <<exit_code, config, seen_urls, src_idx, feed, failed, all_entries,
                   entries, an_idx, analyzed_entries, summary, llm_calls, parse_calls,
                   stages, llm_log, sources, clock>>

----------------------------------------------------------------------------
(* FeedFetcher (feed_fetcher.py) *)

\* Times are whole hours since the epoch.  A struct_time of feedparser is the
\* UTC hour it denotes.
HoursPerDay == 24
NowHour == 48
\* def fetch_all(self, days=1)
DefaultDays == 1

\* The UTC offsets (hours) of the local time zone the process may run in.
TimeZones == {-1, 0, 1}

FeedPool ==
    { [link |-> 1, published_parsed |-> NowHour - HoursPerDay],
      [link |-> 1, updated_parsed |-> NowHour - HoursPerDay + 1],
      [link |-> 2, published_parsed |-> NowHour - HoursPerDay - 1,
       updated_parsed |-> NowHour - HoursPerDay + 1],
      [link |-> 2] }

\* feedparser.parse: it raises, or returns a feed, well-formed or bozo.
FetcherParseAnswers ==
    {[raised |-> TRUE, bozo |-> FALSE, entries |-> <<>>]}
    \cup {[raised |-> FALSE, bozo |-> b, entries |-> f] :
              b \in BOOLEAN, f \in SeqsUpTo(FeedPool, MaxFeedLen)}

\* A field that is absent reads as None.
None == -1

\* cutoff_date = datetime.now(timezone.utc) - timedelta(days=days)
CutoffDate(c) == c.now - c.days * HoursPerDay

\* entry.get('published_parsed') or entry.get('updated_parsed')
PublishedTimeStruct(entry) ==
    IF Get(entry, "published_parsed", None) # None
    THEN entry.published_parsed
    ELSE Get(entry, "updated_parsed", None)

\* time.mktime reads the struct as LOCAL time: for a zone tz hours ahead of
\* UTC the epoch hour it returns is tz hours less than the UTC hour.
MkTime(struct, tz) == struct - tz

\* datetime.fromtimestamp(time.mktime(published_time_struct), tz=timezone.utc)
PublishedDt(entry, c) == MkTime(PublishedTimeStruct(entry), c.tz)

\* if published_time_struct: ... if published_dt >= cutoff_date:
Recent(entry, c) ==
    /\ PublishedTimeStruct(entry) # None
    /\ PublishedDt(entry, c) >= CutoffDate(c)

\* The inner loop over feed.entries of fetch_all.
RECURSIVE KeepRecent(_, _, _, _)
KeepRecent(es, all, name, c) ==
    IF es = <<>> THEN all
    ELSE LET entry == Head(es)
         IN  IF Recent(entry, c)
             THEN KeepRecent(Tail(es),
                             Append(all, ("source_name" :> name)
                                         @@ ("published_dt" :> PublishedDt(entry, c))
                                         @@ entry),
                             name, c)
             ELSE KeepRecent(Tail(es), all, name, c)

\* list.sort(key=published_dt, reverse=True): stable, newest first.
RECURSIVE InsertDesc(_, _)
InsertDesc(sorted, e) ==
    IF sorted = <<>> THEN <<e>>
    ELSE IF Head(sorted).published_dt >= e.published_dt
         THEN <<Head(sorted)>> \o InsertDesc(Tail(sorted), e)
         ELSE <<e>> \o sorted

RECURSIVE SortDesc(_)
SortDesc(es) ==
    IF es = <<>> THEN <<>>
    ELSE InsertDesc(SortDesc(SubSeq(es, 1, Len(es) - 1)), es[Len(es)])

\* FeedFetcher(sources).fetch_all(days): the clock is read, all_entries = [].
FetchAll ==
    /\ pc = "start"
    /\ \E n \in 0..MaxSources, tz \in TimeZones :
          /\ sources' = [k \in 1..n |-> [name |-> k]]
          /\ clock' = [now |-> NowHour, tz |-> tz, days |-> DefaultDays]
    /\ all_entries' = <<>>
    /\ src_idx' = 1
    /\ pc' = "fetch_all"
    /\ UNCHANGED <<exit_code, config, seen_urls, feed, failed, entries, an_idx,
                   analyzed_entries, summary, llm_calls, parse_calls, stages,
                   delivery, cred_error, llm_log>>

\* The position after a source whose parse raised: the except clause logs
\* and the loop goes on.
AfterFetchError == "fetch_all"

\* One iteration of `for source in self.sources`.
FetchAllSource ==
    /\ pc = "fetch_all"
    /\ src_idx <= Len(sources)
    /\ \E answer \in FetcherParseAnswers :
          /\ feed' = answer
          /\ parse_calls' = parse_calls + 1
          /\ IF answer.raised
             THEN /\ failed' = failed \cup {src_idx}
                  /\ pc' = AfterFetchError
                  /\ UNCHANGED all_entries
             ELSE /\ all_entries' = KeepRecent(answer.entries, all_entries,
                                               sources[src_idx].name, clock)
                  /\ pc' = "fetch_all"
                  /\ UNCHANGED failed
    /\ src_idx' = src_idx + 1
    /\ UNCHANGED <<exit_code, config, seen_urls, entries, an_idx, analyzed_entries,
                   summary, llm_calls, stages, delivery, cred_error, llm_log,
                   sources, clock>>

\* The loop is over: all_entries is sorted and returned.
FetchAllReturn ==
    /\ pc = "fetch_all"
    /\ src_idx > Len(sources)
    /\ entries' = SortDesc(all_entries)
    /\ all_entries' = <<>>
    /\ feed' = NoFeed
    /\ pc' = "fetch_all_returned"
    /\ UNCHANGED <<exit_code, config, seen_urls, src_idx, failed, an_idx,
                   analyzed_entries, summary, llm_calls, parse_calls, stages,
                   delivery, cred_error, llm_log, sources, clock>>

----------------------------------------------------------------------------
(* Summarizer (summarizer.py) *)

NoNewArticles == <<"No new articles found today.">>
FailedToGenerateSummary == <<"Failed to generate summary due to an error.">>

\* Summarizer(api_key): ValueError when the key is not set.
SummarizerInit ==
    /\ pc = "start"
    /\ \E api_key \in BOOLEAN :
          IF ~api_key
          THEN /\ pc' = "raised"
               /\ cred_error' = "GEMINI_API_KEY"
          ELSE /\ pc' = "summarizer_ready"
               /\ UNCHANGED cred_error
    /\ UNCHANGED <<exit_code, config, seen_urls, src_idx, feed, failed, all_entries,
                   entries, an_idx, analyzed_entries, summary, llm_calls, parse_calls,
                   stages, delivery, llm_log, sources, clock>>

\* The returned string and the number of model calls made for it.
Summarized(es, answer) ==
    IF es = <<>>
    THEN [text |-> NoNewArticles, calls |-> 0]
    ELSE [text |-> IF answer.raised THEN FailedToGenerateSummary ELSE answer.text,
          calls |-> 1]

SummarizeInputs ==
    SeqsUpTo({ [title |-> <<"c">>, link |-> 1, summary |-> <<"c">>, source_name |-> 1],
               [link |-> 2] }, MaxFeedLen)

\* summarizer.summarize(entries, user_name, interests)
Summarize ==
    /\ pc = "summarizer_ready"
    /\ \E es \in SummarizeInputs, answer \in LLMAnswers :
          LET r == Summarized(es, answer)
          IN  /\ entries' = es
              /\ summary' = r.text
              /\ llm_calls' = llm_calls + r.calls
    /\ pc' = "summarize_returned"
    /\ UNCHANGED <<exit_code, config, seen_urls, src_idx, feed, failed, all_entries,
                   an_idx, analyzed_entries, parse_calls, stages, delivery,
                   cred_error, llm_log, sources, clock>>

----------------------------------------------------------------------------
Next ==
    \/ PaperBoyConfigError
    \/ PaperBoyInit
    \/ Run
    \/ FetchFeedsSource
    \/ FetchFeedsReturn
    \/ AnalyzeItem
    \/ AnalyzeReturn
    \/ GenerateDigestSummary
    \/ GenerateDigestSummaryCall
    \/ Deliver
    \/ FetchAll
    \/ FetchAllSource
    \/ FetchAllReturn
    \/ SummarizerInit
    \/ Summarize

Spec == Init /\ [][Next]_vars

----------------------------------------------------------------------------
(* The stages of run after a fetch that returned many entries.             *)
(* The initial states are the states of run right after fetch_feeds has    *)
(* returned n entries with n distinct links (one source, no interests),    *)
(* for every n up to MaxEntries: more than analyze looks at.               *)

FetchedEntry(i) ==
    [title |-> <<"c">>, link |-> i, summary |-> <<"c">>, source |-> 1, published |-> NowIso]

InitAnalyze ==
    /\ pc = "analyze"
    /\ exit_code = 0
    /\ \E m \in DeliveryModes :
          config = [interests |-> <<>>, sources |-> <<[name |-> 1]>>, delivery_mode |-> m]
    /\ \E n \in 1..MaxEntries :
          /\ entries = [i \in 1..n |-> FetchedEntry(i)]
          /\ seen_urls = 1..n
    /\ src_idx = 2
    /\ feed = NoFeed
    /\ failed = {}
    /\ all_entries = <<>>
    /\ an_idx = 1
    /\ analyzed_entries = <<>>
    /\ summary = <<>>
    /\ llm_calls = 0
    /\ parse_calls = 1
    /\ stages = <<"Fetch", "Analyze">>
    /\ delivery = NoDelivery
    /\ cred_error = "none"
    /\ llm_log = <<>>
    /\ sources = <<>>
    /\ clock = [now |-> 0, tz |-> 0, days |-> 0]

NextAnalyze ==
    \/ AnalyzeItem
    \/ AnalyzeReturn
    \/ GenerateDigestSummary
    \/ Deliver

SpecAnalyze == InitAnalyze /\ [][NextAnalyze]_vars

----------------------------------------------------------------------------
(* Vocabulary of the properties *)

\* The positions of a PaperBoy run after fetch_feeds has returned.
AfterFetchFeeds == stages # <<>> /\ pc \in {"analyze", "summary", "deliver", "done"}

\* The entries of a list that carry the name of one source.
FromSource(es, field, name) == SelectSeq(es, LAMBDA e : e[field] = name)

Count(es, e) == Cardinality({i \in DOMAIN es : es[i] = e})

IsPermutation(a, b) ==
    /\ Len(a) = Len(b)
    /\ \A i \in DOMAIN a : Count(a, a[i]) = Count(b, a[i])

IsPrefix(a, b) == Len(a) <= Len(b) /\ SubSeq(b, 1, Len(a)) = a

\* A keyword occurs in a text at position p, letter case ignored.
OccursAt(k, text, p) == \A q \in 1..Len(k) : Lower(k[q]) = Lower(text[p + q - 1])

\* A keyword occurs in the title and summary text of a raw entry.
Mentions(e, k) ==
    LET text == Get(e, "title", <<>>) \o <<" ">> \o EntrySummary(e)
    IN  \E p \in 1..(Len(text) - Len(k) + 1) : OccursAt(k, text, p)

\* The entry is of interest under the configured keywords (all are, if none).
Interesting(e, c) ==
    \/ Get(c, "interests", <<>>) = <<>>
    \/ \E k \in 1..Len(c.interests) : Mentions(e, c.interests[k])

\* The links fetch_feeds holds from the sources other than `name`.
PriorLinks(name) ==
    {all_entries[i].link : i \in {i \in DOMAIN all_entries : all_entries[i].source # name}}

\* The indices of a feed's entries that qualify: of interest, with a link no
\* earlier source brought and no earlier interesting entry of the feed has.
Qualifying(f, name) ==
    {j \in 1..Len(f) :
        /\ Interesting(f[j], config)
        /\ Get(f[j], "link", EmptyLink) \notin PriorLinks(name)
        /\ \A i \in 1..(j - 1) :
              Interesting(f[i], config)
                  => Get(f[i], "link", EmptyLink) # Get(f[j], "link", EmptyLink)}

\* The entries of f at the indices of a set, in the order of f.
Pick(f, idx) ==
    LET at == SelectSeq([j \in 1..Len(f) |-> j], LAMBDA j : j \in idx)
    IN  [k \in 1..Len(at) |-> f[at[k]]]

\* A normalized entry is the raw entry e, unchanged in title, link and text.
SameEntry(n, e) ==
    /\ n.title = Get(e, "title", <<>>)
    /\ n.link = Get(e, "link", EmptyLink)
    /\ n.summary = EntrySummary(e)

\* The source the loop has just finished with.
LastSource == src_idx - 1

----------------------------------------------------------------------------
(* C1: source failure isolation *)

C1_State ==
    /\ (pc = "fetch_feeds" /\ src_idx > 1) =>
          IF feed.raised
          THEN FromSource(all_entries, "source", LastSource) = <<>>
          ELSE \A j \in Qualifying(feed.entries, LastSource) :
                  \E k \in DOMAIN all_entries :
                      /\ all_entries[k].source = LastSource
                      /\ SameEntry(all_entries[k], feed.entries[j])
    /\ (pc = "fetch_all" /\ src_idx > 1) =>
          IF feed.raised
          THEN FromSource(all_entries, "source_name", LastSource) = <<>>
          ELSE \A j \in DOMAIN feed.entries :
                  Recent(feed.entries[j], clock) =>
                      \E k \in DOMAIN all_entries :
                          /\ all_entries[k].source_name = LastSource
                          /\ all_entries[k].link = feed.entries[j].link
                          /\ PublishedTimeStruct(all_entries[k])
                                 = PublishedTimeStruct(feed.entries[j])
    /\ \A i \in failed :
          /\ \A k \in DOMAIN all_entries :
                Get(all_entries[k], "source", 0) # i /\ Get(all_entries[k], "source_name", 0) # i
          /\ \A k \in DOMAIN entries :
                Get(entries[k], "source", 0) # i /\ Get(entries[k], "source_name", 0) # i
    /\ AfterFetchFeeds => parse_calls = Len(Sources(config))
    /\ pc = "fetch_all_returned" => parse_calls = Len(sources)

C1_Step ==
    /\ (pc \in {"fetch_feeds", "fetch_all"} /\ src_idx' = src_idx + 1) =>
          /\ pc' = pc
          /\ IsPrefix(all_entries, all_entries')
          /\ feed'.raised => all_entries' = all_entries
    /\ (pc = "fetch_feeds" /\ pc' # pc) => entries' = all_entries
    /\ (pc = "fetch_all" /\ pc' # pc) => IsPermutation(all_entries, entries')

\* C1: a source whose retrieval raises contributes no entry and the loop goes
\* on with the next source: every source is attempted, the entries gathered
\* so far are kept, every qualifying entry of a source that did not fail is
\* in the list, and the list is what the fetch returns (fetch_feeds and
\* fetch_all alike).
C1_SourceFailureIsolation == []C1_State /\ [][C1_Step]_vars

\* A first source failed, a second one delivered and the fetch has returned.
C1_Witness ==
    /\ 1 \in failed
    /\ pc \in {"analyze", "fetch_all_returned"}
    /\ \E k \in DOMAIN entries :
          Get(entries[k], "source", 0) = 2 \/ Get(entries[k], "source_name", 0) = 2

----------------------------------------------------------------------------
(* C2: deduplication by link *)

\* The source an entry of either fetcher is attributed to.
SourceOf(e) == IF "source" \in DOMAIN e THEN e.source ELSE e.source_name

NoDuplicateLinks(es) ==
    \A i, j \in DOMAIN es :
        (i # j /\ SourceOf(es[i]) # SourceOf(es[j])) => es[i].link # es[j].link

\* C2: in the output of the fetch stage (fetch_feeds, fetch_all) no two
\* entries that come from different sources have the same link (for
\* fetch_all: already when the process runs in UTC, where its reading of the
\* publication times is exact).
C2_DedupByLink ==
    /\ AfterFetchFeeds => NoDuplicateLinks(entries)
    /\ (pc = "fetch_all_returned" /\ clock.tz = 0) => NoDuplicateLinks(entries)

----------------------------------------------------------------------------
(* C3: the analyzer and the entries beyond its bound *)

HasAnalysis(e) == "analysis" \in DOMAIN e

----------------------------------------------------------------------------
(* C4: per-item failure isolation of the analyzer *)

\* r is t without its leading and trailing blanks.
Trimmed(t, r) ==
    \E a \in 1..(Len(t) + 1), b \in 0..Len(t) :
        /\ r = SubSeq(t, a, b)
        /\ \A i \in 1..(a - 1) : t[i] = " "
        /\ \A i \in (b + 1)..Len(t) : t[i] = " "
        /\ r # <<>> => r[1] # " " /\ r[Len(r)] # " "

\* C4: whatever calls of the model fail, every item processed so far is in
\* the list, in order, a failed one with "Analysis failed." and a successful
\* one with the trimmed text; the loop ends only when all of the first
\* min(n, 10) items are processed.
C4_ItemFailureIsolation ==
    /\ pc = "analyze" => Len(analyzed_entries) = an_idx - 1
    /\ Len(analyzed_entries) = Len(llm_log)
    /\ \A i \in DOMAIN analyzed_entries :
          /\ analyzed_entries[i].link = i
          /\ HasAnalysis(analyzed_entries[i])
          /\ IF llm_log[i].raised
             THEN analyzed_entries[i].analysis = <<"Analysis failed.">>
             ELSE Trimmed(llm_log[i].text, analyzed_entries[i].analysis)
    /\ pc \in {"summary", "deliver", "done"} =>
          Len(analyzed_entries) = (IF Len(entries) < 10 THEN Len(entries) ELSE 10)

\* The first call failed, the second succeeded, and analyze has returned.
C4_Witness ==
    /\ pc = "summary"
    /\ Len(llm_log) >= 3
    /\ llm_log[1].raised
    /\ ~llm_log[2].raised
    /\ analyzed_entries[1].analysis = <<"Analysis failed.">>
    /\ analyzed_entries[2].analysis = <<"o", " ", "k">>

----------------------------------------------------------------------------
(* C5: delivery mode `both` *)

\* C5: with delivery_mode `both`, deliver attempts the Markdown path and the
\* email path.
C5_BothAttemptsBoth ==
    (pc = "done" /\ "Deliver" \in {stages[i] : i \in DOMAIN stages}
        /\ Mode(config) = "both") =>
        delivery.md_attempted /\ delivery.email_attempted

----------------------------------------------------------------------------
(* C6: the stages of run and the short-circuit on an empty fetch *)

StageOrder == <<"Fetch", "Analyze", "Summarize", "Deliver">>

\* C6: the stages entered are a prefix of Fetch, Analyze, Summarize, Deliver;
\* a run whose fetch returned nothing has ended right after Fetch, with no
\* call of the model and no delivery attempted.
C6_ZeroEntryShortCircuit ==
    /\ IsPrefix(stages, StageOrder)
    /\ (stages # <<>> /\ pc # "fetch_feeds" /\ entries = <<>>) =>
          /\ pc = "done"
          /\ stages = <<"Fetch">>
          /\ llm_calls = 0
          /\ delivery = NoDelivery
    /\ (stages # <<>> /\ llm_calls > 0) => entries # <<>>

\* A run that fetched from a source, kept nothing and ended.
C6_Witness ==
    /\ pc = "done"
    /\ stages = <<"Fetch">>
    /\ parse_calls > 0
    /\ entries = <<>>
    /\ llm_calls = 0

----------------------------------------------------------------------------
(* C7: missing credentials *)

\* C7: when a required credential is reported missing, no feed was fetched
\* and the model was not called, and the process halts with an error.
C7_CredentialsBeforeNetwork ==
    cred_error # "none" => parse_calls = 0 /\ llm_calls = 0

----------------------------------------------------------------------------
(* C8: the recency cutoff *)

\* C8: of the entries of the feed just read by fetch_all, one published
\* before now - window is not in the list, one published at the boundary or
\* later is.
C8_RecencyCutoff ==
    (pc = "fetch_all" /\ src_idx > 1 /\ ~feed.raised) =>
        \A j \in DOMAIN feed.entries :
            LET e == feed.entries[j]
                t == PublishedTimeStruct(e)
                kept == \E k \in DOMAIN all_entries :
                            /\ all_entries[k].source_name = LastSource
                            /\ all_entries[k].link = e.link
                            /\ PublishedTimeStruct(all_entries[k]) = t
            IN  t # None =>
                    (kept <=> t >= clock.now - clock.days * HoursPerDay)

----------------------------------------------------------------------------
(* C9: the summarizer on an empty input *)

\* C9: generate_digest_summary and summarize return their fixed message for
\* an empty input without calling the model, and call it exactly once for a
\* non-empty one (in a run: once after the calls of analyze).
C9_EmptySummary ==
    /\ pc = "summary_returned" =>
          IF analyzed_entries = <<>>
          THEN summary = <<"No entries to summarize.">> /\ llm_calls = 0
          ELSE llm_calls = 1
    /\ pc = "summarize_returned" =>
          IF entries = <<>>
          THEN summary = <<"No new articles found today.">> /\ llm_calls = 0
          ELSE llm_calls = 1
    /\ pc = "deliver" => llm_calls = Len(llm_log) + 1

C9_Witness ==
    /\ pc = "summary_returned"
    /\ analyzed_entries = <<>>
    /\ summary = <<"No entries to summarize.">>
    /\ llm_calls = 0

----------------------------------------------------------------------------
(* C10: interest filtering *)

\* C10: from the feed just read, fetch_feeds keeps exactly the entries that
\* mention a configured keyword in title or summary, letter case ignored
\* (all entries when no keyword is configured), leaving out only links it
\* already holds; it keeps them in the order of the feed and unchanged.
C10_InterestFilter ==
    (pc = "fetch_feeds" /\ src_idx > 1 /\ ~feed.raised) =>
        LET mine == FromSource(all_entries, "source", LastSource)
            want == Pick(feed.entries, Qualifying(feed.entries, LastSource))
        IN  /\ Len(mine) = Len(want)
            /\ \A k \in DOMAIN mine : SameEntry(mine[k], want[k])
            /\ \A k \in DOMAIN mine :
                  Interests(config) # <<>> =>
                      \E i \in DOMAIN config.interests : Mentions(want[k], config.interests[i])
            /\ \A j \in DOMAIN feed.entries :
                  Interesting(feed.entries[j], config) =>
                      \E k \in DOMAIN all_entries :
                          all_entries[k].link = Get(feed.entries[j], "link", EmptyLink)

\* A keyword in other letter case than the title matched, and an entry
\* without the keyword was left out.
C10_Witness ==
    /\ pc = "fetch_feeds"
    /\ src_idx > 1
    /\ Get(config, "interests", <<>>) = << <<"a", "B">> >>
    /\ Len(feed.entries) = 2
    /\ Len(FromSource(all_entries, "source", LastSource)) = 1
    /\ \E k \in DOMAIN all_entries : all_entries[k].title = <<"A", "b">>

====
